---- MODULE Spec2Model ----
(***************************************************************************)
(* Model of scripts/stock-analysis/database.py: DatabaseManager.           *)
(*                                                                         *)
(* The store is the three tables 'stocks', 'stock_prices' and              *)
(* 'stock_predictions' behind the Supabase client.  Python dicts are       *)
(* functions with a domain of key names; a raw value that float()/int()    *)
(* is applied to is a record [k, n] whose kind says whether the coercion   *)
(* succeeds.  A nullable float column holds {} (NULL) or {v}.              *)
(***************************************************************************)
EXTENDS Integers, Sequences, FiniteSets, TLC

VARIABLES
    stocks,             \* rows of table 'stocks'
    stock_prices,       \* rows of table 'stock_prices'
    stock_predictions,  \* rows of table 'stock_predictions'
    pc,                 \* position of the caller / of the batch driver
    stock_data,         \* argument of the current upsert_stock_data call
    fail,               \* the database operation that fails during the call
    issued,             \* database operations executed by the current call
    ret,                \* outcome of the current call
    prev_ticker,        \* ticker of the preceding call when it was fault free
    ranked_stocks,      \* rows of the frame given to write_analysis_to_database
    idx,                \* number of rows the driver has consumed
    success_count,
    error_count,
    invoked,            \* positions of the rows handed to upsert_stock_data
    outcomes            \* per row: "True", "False" or "raised"

vars == <<stocks, stock_prices, stock_predictions, pc, stock_data, fail,
          issued, ret, prev_ticker, ranked_stocks, idx, success_count,
          error_count, invoked, outcomes>>

tables == <<stocks, stock_prices, stock_predictions>>
callvars == <<stock_data, fail, issued, ret>>
batchvars == <<ranked_stocks, idx, success_count, error_count, invoked, outcomes>>

-----------------------------------------------------------------------------
(* Bounds *)

MaxLen == 2         \* longest price / prediction series
MaxBatch == 3       \* longest frame handed to the batch driver

Tickers == {"AAA", "BBB"}

-----------------------------------------------------------------------------
(* Python values *)

Num(n) == [k |-> "num", n |-> n]
Junk == [k |-> "junk", n |-> 0]

\* float(x) / int(x) raise ValueError or TypeError on a value that is not numeric
CanCoerce(x) == x.k = "num"
Coerce(x) == x.n

EmptyDict == [k \in {} |-> k]

\* dict.get(key, default)
Get(d, key, default) == IF key \in DOMAIN d THEN d[key] ELSE default

\* truth value of a list or dict: non-empty
Truthy(v) == DOMAIN v # {}

-----------------------------------------------------------------------------
(* Schema of the store *)

TableNames == <<"stocks", "stock_prices", "stock_predictions">>

Columns(tbl) ==
    CASE tbl = "stocks" ->
            {"ticker", "name", "sentiment_score", "sentiment_category", "sentiment",
             "news_count", "rank", "investment_score", "last_updated", "is_public"}
      [] tbl = "stock_prices" -> {"ticker", "date", "price", "is_public"}
      [] tbl = "stock_predictions" ->
            {"ticker", "date", "price", "upper_bound", "lower_bound", "is_public"}

PrimaryKey(tbl) ==
    IF tbl = "stocks" THEN {"ticker"} ELSE {"ticker", "date"}

Op(kind, tbl) == [op |-> kind, table |-> tbl]

NoFail == Op("none", "none")

\* the order in which the handler reaches the store
OpSequence ==
    << Op("delete", "stocks"), Op("insert", "stocks"),
       Op("delete", "stock_prices"), Op("insert", "stock_prices"),
       Op("delete", "stock_predictions"), Op("insert", "stock_predictions") >>

FailChoices == {NoFail} \cup {OpSequence[i] : i \in 1..Len(OpSequence)}

-----------------------------------------------------------------------------
(* The state threaded through one upsert_stock_data call: the three tables, *)
(* the operations executed so far and whether an exception is propagating.  *)

CallState(s, p, q) ==
    [stocks |-> s, stock_prices |-> p, stock_predictions |-> q,
     issued |-> <<>>, exc |-> FALSE]

Raise(st) == [st EXCEPT !.exc = TRUE]

KeyOf(r, tbl) == [c \in PrimaryKey(tbl) |-> r[c]]

SeqToSet(s) == {s[i] : i \in 1..Len(s)}

\* table(tbl).delete().eq(col, v).execute()
DeleteEq(st, tbl, col, v, f) ==
    LET st1 == [st EXCEPT !.issued = Append(@, Op("delete", tbl))]
    IN  IF f = Op("delete", tbl) \/ col \notin Columns(tbl)
        THEN Raise(st1)
        ELSE [st1 EXCEPT ![tbl] = {r \in @ : ~(col \in DOMAIN r /\ r[col] = v)}]

\* table(tbl).insert(rows).execute()
InsertRows(st, tbl, rows, f) ==
    LET st1 == [st EXCEPT !.issued = Append(@, Op("insert", tbl))]
        keys == {KeyOf(rows[i], tbl) : i \in 1..Len(rows)}
        clash == \/ Cardinality(keys) < Len(rows)
                 \/ \E r \in st[tbl] : KeyOf(r, tbl) \in keys
        unknown == \E i \in 1..Len(rows) : ~(DOMAIN rows[i] \subseteq Columns(tbl))
    IN  IF f = Op("insert", tbl) \/ clash \/ unknown
        THEN Raise(st1)
        ELSE [st1 EXCEPT ![tbl] = @ \cup SeqToSet(rows)]

-----------------------------------------------------------------------------
(* upsert_stock_data *)

\* building the 'stocks' row raises: a missing key or a failing coercion
StockRowRaises(sd) ==
    \/ "ticker" \notin DOMAIN sd
    \/ "name" \notin DOMAIN sd
    \/ ~CanCoerce(Get(sd, "sentiment_score", Num(0)))
    \/ ~CanCoerce(Get(sd, "investment_score", Num(0)))
    \/ ~CanCoerce(Get(sd, "news_count", Num(0)))
    \/ ~CanCoerce(Get(sd, "rank", Num(0)))

\* the dict 'stock'
StockRow(sd) ==
    [ticker |-> sd["ticker"],
     name |-> sd["name"],
     sentiment |->
        [score |-> Coerce(Get(sd, "sentiment_score", Num(0))),
         category |-> Get(sd, "sentiment_category", "Neutral"),
         investment_score |-> Coerce(Get(sd, "investment_score", Num(0)))],
     news_count |-> Coerce(Get(sd, "news_count", Num(0))),
     rank |-> Coerce(Get(sd, "rank", Num(0))),
     investment_score |-> Coerce(Get(sd, "investment_score", Num(0))),
     last_updated |-> "now"]

\* variant of DeleteStocks: the filter is the 'ticker' entry of the row
DeleteStocksByTicker(st, stock, f) ==
    IF st.exc THEN st
    ELSE DeleteEq(st, "stocks", "ticker", stock["ticker"], f)

\* variant of DeleteStocks: the delete is sent without a filter
DeleteStocksNoFilter(st, stock, f) ==
    IF st.exc THEN st
    ELSE LET st1 == [st EXCEPT !.issued = Append(@, Op("delete", "stocks"))]
         IN  IF f = Op("delete", "stocks") THEN Raise(st1)
             ELSE [st1 EXCEPT !.stocks = {}]

\* table('stocks').delete().eq('id', stock['id']).execute(): the argument
\* stock['id'] is evaluated before the request is sent
DeleteStocks(st, stock, f) ==
    IF st.exc THEN st
    ELSE IF "id" \notin DOMAIN stock THEN Raise(st)
    ELSE DeleteEq(st, "stocks", "id", stock["id"], f)

\* table('stocks').insert(stock).execute()
InsertStocks(st, stock, f) ==
    IF st.exc THEN st
    ELSE InsertRows(st, "stocks", <<stock>>, f)

PriceRowsRaise(sd) ==
    \E i \in 1..Len(sd["historical_data"]) :
        \/ ~({"date", "price"} \subseteq DOMAIN sd["historical_data"][i])
        \/ ~CanCoerce(sd["historical_data"][i]["price"])

\* the list 'historical_data' of rows
PriceRows(sd) ==
    [i \in 1..Len(sd["historical_data"]) |->
        [ticker |-> sd["ticker"],
         date |-> sd["historical_data"][i]["date"],
         price |-> Coerce(sd["historical_data"][i]["price"])]]

\* "Handle historical prices"
HandlePrices(st, sd, f) ==
    IF st.exc THEN st
    ELSE IF ~Truthy(Get(sd, "historical_data", <<>>)) THEN st
    ELSE IF PriceRowsRaise(sd) THEN Raise(st)
    ELSE LET rows == PriceRows(sd)
             st1 == DeleteEq(st, "stock_prices", "ticker", sd["ticker"], f)
         IN  IF st1.exc \/ ~Truthy(rows) THEN st1
             ELSE InsertRows(st1, "stock_prices", rows, f)

\* pred[key][i] if pred.get(key) else None, then float(b['price']) if b else None
BoundRaises(pred, key, i) ==
    LET bs == Get(pred, key, <<>>)
    IN  /\ Truthy(bs)
        /\ \/ i > Len(bs)
           \/ /\ Truthy(bs[i])
              /\ \/ "price" \notin DOMAIN bs[i]
                 \/ ~CanCoerce(bs[i]["price"])

Bound(pred, key, i) ==
    LET bs == Get(pred, key, <<>>)
    IN  IF Truthy(bs) /\ Truthy(bs[i]) THEN {Coerce(bs[i]["price"])} ELSE {}

PredictionRowsRaise(sd) ==
    LET pred == sd["prediction"]
    IN  \E i \in 1..Len(pred["data"]) :
            \/ ~({"date", "price"} \subseteq DOMAIN pred["data"][i])
            \/ ~CanCoerce(pred["data"][i]["price"])
            \/ BoundRaises(pred, "upper_bound", i)
            \/ BoundRaises(pred, "lower_bound", i)

\* the list 'predictions' of rows
PredictionRows(sd) ==
    LET pred == sd["prediction"]
    IN  [i \in 1..Len(pred["data"]) |->
            [ticker |-> sd["ticker"],
             date |-> pred["data"][i]["date"],
             price |-> Coerce(pred["data"][i]["price"]),
             upper_bound |-> Bound(pred, "upper_bound", i),
             lower_bound |-> Bound(pred, "lower_bound", i)]]

\* "Handle predictions"
HandlePredictions(st, sd, f) ==
    IF st.exc THEN st
    ELSE IF ~Truthy(Get(sd, "prediction", EmptyDict)) THEN st
    ELSE IF ~Truthy(Get(sd["prediction"], "data", <<>>)) THEN st
    ELSE IF PredictionRowsRaise(sd) THEN Raise(st)
    ELSE LET rows == PredictionRows(sd)
             st1 == DeleteEq(st, "stock_predictions", "ticker", sd["ticker"], f)
         IN  IF st1.exc \/ ~Truthy(rows) THEN st1
             ELSE InsertRows(st1, "stock_predictions", rows, f)

\* variant of ExceptHandler: the exception is let through
ExceptReraise(st) == "raised"

\* except Exception: print(...); return False
ExceptHandler(st) == "False"

\* the whole call: the final call state and the value handed to the caller
upsert_stock_data(s, p, q, sd, f) ==
    LET st0 == CallState(s, p, q)
        st4 == IF StockRowRaises(sd) THEN Raise(st0)
               ELSE LET stock == StockRow(sd)
                        st1 == DeleteStocks(st0, stock, f)
                        st2 == InsertStocks(st1, stock, f)
                        st3 == HandlePrices(st2, sd, f)
                    IN  HandlePredictions(st3, sd, f)
    IN  [st |-> st4, ret |-> IF st4.exc THEN ExceptHandler(st4) ELSE "True"]

-----------------------------------------------------------------------------
(* write_analysis_to_database *)

DefaultPrediction == [data |-> <<>>, upper_bound |-> <<>>, lower_bound |-> <<>>]

\* building the dict 'stock_data' from a row of the frame raises
PrepareRaises(row) ==
    \/ "ticker" \notin DOMAIN row
    \/ "name" \notin DOMAIN row
    \/ ~CanCoerce(Get(row, "avg_sentiment", Num(0)))
    \/ ~CanCoerce(Get(row, "investment_score", Num(0)))
    \/ ~CanCoerce(Get(row, "news_count", Num(0)))

\* the dict 'stock_data' built from the row at 0-based position i
PrepareStockData(row, i) ==
    [ticker |-> row["ticker"],
     name |-> row["name"],
     sentiment_score |-> Num(Coerce(Get(row, "avg_sentiment", Num(0)))),
     sentiment_category |-> Get(row, "sentiment_category", "Neutral"),
     investment_score |-> Num(Coerce(Get(row, "investment_score", Num(0)))),
     news_count |-> Num(Coerce(Get(row, "news_count", Num(0)))),
     rank |-> Num(i + 1),
     historical_data |-> Get(row, "historical_data", <<>>),
     prediction |-> Get(row, "prediction", DefaultPrediction)]

\* variant of Tally: a row whose processing raised is not counted
TallyDropRaised(sc, ec, outcome) ==
    IF outcome = "True" THEN <<sc + 1, ec>>
    ELSE IF outcome = "raised" THEN <<sc, ec>>
    ELSE <<sc, ec + 1>>

\* success_count += 1 / error_count += 1
Tally(sc, ec, outcome) ==
    IF outcome = "True" THEN <<sc + 1, ec>> ELSE <<sc, ec + 1>>

-----------------------------------------------------------------------------
(* Inputs *)

PricePoint(i, d) == [date |-> i, price |-> Num(10 * i + d)]

Series(n, d) == [i \in 1..n |-> PricePoint(i, d)]

Field(key, v) == key :> v

HistoryChoices ==
    {EmptyDict} \cup {Field("historical_data", Series(n, 0)) : n \in 0..MaxLen}

BoundChoices(key, d, k) ==
    {EmptyDict} \cup {Field(key, Series(j, d)) : j \in 0..k}

PredictionChoices ==
    {EmptyDict} \cup
    { Field("prediction", Field("data", Series(k, 0)) @@ u @@ l) :
        k \in 0..MaxLen, u \in BoundChoices("upper_bound", 1, MaxLen),
        l \in BoundChoices("lower_bound", -1, MaxLen) }

Scalars ==
    [sentiment_score |-> Num(3), sentiment_category |-> "Positive",
     investment_score |-> Num(7), news_count |-> Num(4), rank |-> Num(1)]

ScalarChoices == {EmptyDict, Scalars}

Base(t) == [ticker |-> t, name |-> "Corp"]

WellFormedRecords ==
    { Base(t) @@ o @@ h @@ p :
        t \in Tickers, o \in ScalarChoices, h \in HistoryChoices,
        p \in PredictionChoices }

MalformedRecords ==
    { [name |-> "Corp"],
      [ticker |-> "AAA"],
      [ticker |-> "AAA", name |-> "Corp", news_count |-> Junk],
      [ticker |-> "AAA", name |-> "Corp",
       historical_data |-> <<[date |-> 1, price |-> Junk]>>],
      [ticker |-> "AAA", name |-> "Corp",
       prediction |-> [data |-> <<[date |-> 1, price |-> Junk]>>]] }

Records == WellFormedRecords \cup MalformedRecords

\* rows a ticker may already have in the store when the manager is constructed
OldStocks(t) == {StockRow(Base(t))}
OldPrices(t) == {[ticker |-> t, date |-> 1, price |-> 99]}
OldPredictions(t) ==
    {[ticker |-> t, date |-> 1, price |-> 99, upper_bound |-> {}, lower_bound |-> {}]}

FrameRows ==
    UNION { { Base(t),
              Base(t) @@ [avg_sentiment |-> Num(3), sentiment_category |-> "Positive",
                          investment_score |-> Num(7), news_count |-> Num(4),
                          historical_data |-> Series(1, 0),
                          prediction |-> [data |-> Series(1, 0),
                                          upper_bound |-> Series(1, 1),
                                          lower_bound |-> Series(1, -1)]],
              Base(t) @@ [news_count |-> Junk] } : t \in Tickers }

Frames == UNION { [1..n -> FrameRows] : n \in 0..MaxBatch }

NoCall == [none |-> TRUE]

-----------------------------------------------------------------------------
(* State machine *)

Init ==
    /\ \E held \in SUBSET Tickers :
          /\ stocks = UNION {OldStocks(t) : t \in held}
          /\ stock_prices = UNION {OldPrices(t) : t \in held}
          /\ stock_predictions = UNION {OldPredictions(t) : t \in held}
    /\ pc = "idle"
    /\ stock_data = NoCall
    /\ fail = NoFail
    /\ issued = <<>>
    /\ ret = "none"
    /\ prev_ticker = "none"
    /\ ranked_stocks = <<>>
    /\ idx = 0
    /\ success_count = 0
    /\ error_count = 0
    /\ invoked = <<>>
    /\ outcomes = <<>>

\* one call of upsert_stock_data(sd) during which operation f of the store fails
UpsertStockData ==
    /\ pc = "idle"
    /\ \E sd \in Records, f \in FailChoices :
          /\ \E r \in {upsert_stock_data(stocks, stock_prices, stock_predictions, sd, f)} :
                /\ stocks' = r.st.stocks
                /\ stock_prices' = r.st.stock_prices
                /\ stock_predictions' = r.st.stock_predictions
                /\ issued' = r.st.issued
                /\ ret' = r.ret
          /\ stock_data' = sd
          /\ fail' = f
    /\ pc' = "returned"
    /\ UNCHANGED <<prev_ticker, batchvars>>

\* the caller takes the result
Return ==
    /\ pc = "returned"
    /\ pc' = "idle"
    /\ prev_ticker' = IF fail = NoFail /\ "ticker" \in DOMAIN stock_data
                      THEN stock_data["ticker"] ELSE "none"
    /\ stock_data' = NoCall
    /\ fail' = NoFail
    /\ issued' = <<>>
    /\ ret' = "none"
    /\ UNCHANGED <<tables, batchvars>>

Next ==
    \/ UpsertStockData
    \/ Return

Spec == Init /\ [][Next]_vars

\* write_analysis_to_database(frame) is entered
BatchStart ==
    /\ pc = "idle"
    /\ pc' = "loop"
    /\ \E frame \in Frames, f \in FailChoices :
          /\ ranked_stocks' = frame
          /\ fail' = f
    /\ idx' = 0
    /\ success_count' = 0
    /\ error_count' = 0
    /\ invoked' = <<>>
    /\ outcomes' = <<>>
    /\ UNCHANGED <<tables, stock_data, issued, ret, prev_ticker>>

\* one iteration of the loop over ranked_stocks.iterrows()
BatchStep ==
    /\ pc = "loop"
    /\ idx < Len(ranked_stocks)
    /\ LET row == ranked_stocks[idx + 1]
           raised == PrepareRaises(row)
           r == IF raised THEN [ret |-> "raised"]
                ELSE upsert_stock_data(stocks, stock_prices, stock_predictions,
                                       PrepareStockData(row, idx), fail)
           outcome == IF raised THEN "raised" ELSE r.ret
           counts == Tally(success_count, error_count, outcome)
       IN  /\ stocks' = IF raised THEN stocks ELSE r.st.stocks
           /\ stock_prices' = IF raised THEN stock_prices ELSE r.st.stock_prices
           /\ stock_predictions' =
                 IF raised THEN stock_predictions ELSE r.st.stock_predictions
           /\ invoked' = IF raised THEN invoked ELSE Append(invoked, idx)
           /\ outcomes' = Append(outcomes, outcome)
           /\ success_count' = counts[1]
           /\ error_count' = counts[2]
    /\ idx' = idx + 1
    /\ UNCHANGED <<pc, ranked_stocks, callvars, prev_ticker>>

\* the summary is printed and (success_count, error_count) is returned
BatchFinish ==
    /\ pc = "loop"
    /\ idx = Len(ranked_stocks)
    /\ pc' = "summary"
    /\ UNCHANGED <<tables, callvars, prev_ticker, batchvars>>

\* the caller takes the pair of counts
BatchReturn ==
    /\ pc = "summary"
    /\ pc' = "idle"
    /\ ranked_stocks' = <<>>
    /\ fail' = NoFail
    /\ idx' = 0
    /\ success_count' = 0
    /\ error_count' = 0
    /\ invoked' = <<>>
    /\ outcomes' = <<>>
    /\ UNCHANGED <<tables, stock_data, issued, ret, prev_ticker>>

NextBatch ==
    \/ BatchStart
    \/ BatchStep
    \/ BatchFinish
    \/ BatchReturn

SpecBatch == Init /\ [][NextBatch]_vars

-----------------------------------------------------------------------------
(* Vocabulary of the properties *)

Returned == pc = "returned"

RowsOf(tbl, t) == {r \in tbl : r["ticker"] = t}

HistoryOf(sd) == Get(sd, "historical_data", <<>>)

DataOf(sd) == Get(Get(sd, "prediction", EmptyDict), "data", <<>>)

BoundsOf(sd, key) == Get(Get(sd, "prediction", EmptyDict), key, <<>>)

\* some step of the row mapping raises on this record
MappingRaises(sd) ==
    \/ StockRowRaises(sd)
    \/ Truthy(HistoryOf(sd)) /\ PriceRowsRaise(sd)
    \/ Truthy(DataOf(sd)) /\ PredictionRowsRaise(sd)

ExpectedPrices(sd) ==
    IF Truthy(HistoryOf(sd)) THEN SeqToSet(PriceRows(sd)) ELSE {}

ExpectedPredictions(sd) ==
    IF Truthy(DataOf(sd)) THEN SeqToSet(PredictionRows(sd)) ELSE {}

Position(s, e) == {i \in 1..Len(s) : s[i] = e}

IsPrefix(s, t) == Len(s) <= Len(t) /\ \A i \in 1..Len(s) : s[i] = t[i]

CountOf(s, vs) == Cardinality({i \in 1..Len(s) : s[i] \in vs})

-----------------------------------------------------------------------------
(* upsert_stock_data: results of a call *)

\* C1: a fault-free call on a record with ticker, name, N >= 1 price points and
\* M >= 1 prediction points returns True and leaves exactly one 'stocks' row,
\* N 'stock_prices' rows and M 'stock_predictions' rows for the ticker.
C1_CompleteRecordStored ==
    (/\ Returned
     /\ fail = NoFail
     /\ ~MappingRaises(stock_data)
     /\ Len(HistoryOf(stock_data)) >= 1
     /\ Len(DataOf(stock_data)) >= 1)
    => /\ ret = "True"
       /\ Cardinality(RowsOf(stocks, stock_data["ticker"])) = 1
       /\ Cardinality(RowsOf(stock_prices, stock_data["ticker"]))
             = Len(HistoryOf(stock_data))
       /\ Cardinality(RowsOf(stock_predictions, stock_data["ticker"]))
             = Len(DataOf(stock_data))

DefaultStockRow(t) ==
    [ticker |-> t, name |-> "Corp",
     sentiment |-> [score |-> 0, category |-> "Neutral", investment_score |-> 0],
     news_count |-> 0, rank |-> 0, investment_score |-> 0, last_updated |-> "now"]

\* C2: a fault-free call on a record that has only ticker and name returns True,
\* the 'stocks' row of the ticker carries the defaults (scores 0, category
\* 'Neutral', news_count 0, rank 0) and no price or prediction row is inserted.
C2_DefaultsStored ==
    (/\ Returned
     /\ fail = NoFail
     /\ DOMAIN stock_data = {"ticker", "name"})
    => /\ ret = "True"
       /\ RowsOf(stocks, stock_data["ticker"]) = {DefaultStockRow(stock_data["ticker"])}
       /\ Position(issued, Op("insert", "stock_prices")) = {}
       /\ Position(issued, Op("insert", "stock_predictions")) = {}

\* C3: after two successive fault-free calls for the same ticker each table
\* holds, for that ticker, exactly the rows derived from the second record.
C3_SecondRecordReplacesFirst ==
    (/\ Returned
     /\ fail = NoFail
     /\ ~MappingRaises(stock_data)
     /\ prev_ticker = stock_data["ticker"])
    => /\ RowsOf(stocks, stock_data["ticker"]) = {StockRow(stock_data)}
       /\ RowsOf(stock_prices, stock_data["ticker"]) = ExpectedPrices(stock_data)
       /\ RowsOf(stock_predictions, stock_data["ticker"])
             = ExpectedPredictions(stock_data)

\* C4: a call never raises to its caller: it returns False whenever the row
\* mapping or an executed store operation fails, and True only when no step
\* raised.
C4_NeverRaises ==
    Returned
    => /\ ret \in {"True", "False"}
       /\ MappingRaises(stock_data) => ret = "False"
       /\ Position(issued, fail) # {} => ret = "False"
       /\ ret = "True" => ~MappingRaises(stock_data) /\ Position(issued, fail) = {}

C4_Witness ==
    /\ Returned
    /\ "ticker" \notin DOMAIN stock_data
    /\ ret = "False"

\* C7: in every call, for each of the three tables, the delete filtered by the
\* key is executed, and it precedes that table's insert.
C7_DeleteAlwaysIssued ==
    (Returned /\ ~MappingRaises(stock_data) /\ fail = NoFail)
    => \A i \in 1..Len(TableNames) :
          /\ Position(issued, Op("delete", TableNames[i])) # {}
          /\ \A d \in Position(issued, Op("delete", TableNames[i])),
                n \in Position(issued, Op("insert", TableNames[i])) : d < n

C9_PredictionBounds ==
    (/\ Returned
     /\ fail = NoFail
     /\ ~MappingRaises(stock_data)
     /\ Len(DataOf(stock_data)) >= 1)
    => /\ ret = "True"
       /\ RowsOf(stock_predictions, stock_data["ticker"])
             = ExpectedPredictions(stock_data)
       /\ \A r \in RowsOf(stock_predictions, stock_data["ticker"]) :
             /\ ~Truthy(BoundsOf(stock_data, "upper_bound")) => r["upper_bound"] = {}
             /\ ~Truthy(BoundsOf(stock_data, "lower_bound")) => r["lower_bound"] = {}

\* C10: a call for ticker T leaves the rows of every other ticker unchanged in
\* all three tables.
C10_OtherTickersUntouched ==
    [][ (pc = "idle" /\ pc' = "returned" /\ "ticker" \in DOMAIN stock_data')
        => \A t \in Tickers \ {stock_data'["ticker"]} :
              /\ RowsOf(stocks', t) = RowsOf(stocks, t)
              /\ RowsOf(stock_prices', t) = RowsOf(stock_prices, t)
              /\ RowsOf(stock_predictions', t) = RowsOf(stock_predictions, t) ]_vars

C10_Witness ==
    /\ Returned
    /\ "ticker" \in DOMAIN stock_data
    /\ stock_data["ticker"] = "AAA"
    /\ RowsOf(stocks, "BBB") # {}
    /\ RowsOf(stock_prices, "BBB") # {}
    /\ RowsOf(stock_predictions, "BBB") # {}

-----------------------------------------------------------------------------
(* write_analysis_to_database: the counts *)

Positions(n) == [i \in 1..n |-> i - 1]

Prepared(i) == ~PrepareRaises(ranked_stocks[i + 1])

CountsAgree ==
    /\ Len(outcomes) = Len(ranked_stocks)
    /\ success_count + error_count = Len(ranked_stocks)
    /\ success_count = CountOf(outcomes, {"True"})
    /\ error_count = CountOf(outcomes, {"False", "raised"})

\* C5 as stated: persistence is invoked once for every record, in order, and
\* the counts add up to n, success_count counting the True results and
\* error_count the False and the raised ones.
C5_InvokedForEveryRecord ==
    pc = "summary"
    => /\ invoked = Positions(Len(ranked_stocks))
       /\ CountsAgree

\* C5 amended: every record is processed once, in order; persistence is invoked
\* once for each record whose preparation does not raise and not at all for the
\* others; the counts add up to n as stated.
C5_InvokedForPreparedRecords ==
    pc = "summary"
    => /\ invoked = SelectSeq(Positions(Len(ranked_stocks)), Prepared)
       /\ \A i \in 1..Len(outcomes) :
             outcomes[i] = "raised" <=> PrepareRaises(ranked_stocks[i])
       /\ CountsAgree

C5_Witness ==
    /\ pc = "summary"
    /\ Len(ranked_stocks) >= 2
    /\ outcomes[1] = "raised"
    /\ outcomes[2] = "False"
    /\ invoked = <<1>>
    /\ error_count = Len(ranked_stocks)

====
